---- MODULE Spec2Model ----
(***************************************************************************)
(* Model of src/main.py: one invocation of main() fetches the Verisign     *)
(* zone counts, extracts (com, net, total), compares the triple with the   *)
(* last data row of data.csv and appends a row when it differs.            *)
(*                                                                         *)
(* Text is modelled as sequences of one-character strings, so that         *)
(* str.lower(), int() and str() are computed and not assumed.  data.csv is *)
(* modelled as csv.reader sees a file of newline-terminated rows: a        *)
(* sequence of rows, each a sequence of cells (a blank line is the row     *)
(* with zero cells).                                                       *)
(***************************************************************************)
EXTENDS Integers, Sequences, FiniteSets, TLC

\* ---------------------------------------------------------------- bounds
MaxInitRows == 2   \* rows of the data.csv found by the first run
MaxRuns == 2       \* invocations of main() in one behaviour

Counts == {5, 7}   \* integer counts a payload may carry

Procs == {1, 2}    \* invocations that may be in flight together
SeqProcs == {1}    \* one invocation at a time

VARIABLES
    file,        \* data.csv: [exists, rows]
    origin,      \* per row of file.rows: who wrote it ("init" = found on disk)
    runs,        \* invocations started so far
    raced,       \* TRUE once an invocation started while another was in flight
    pc,          \* per invocation: position in main()
    data,        \* per invocation: result of fetch_zone_data()
    counts,      \* per invocation: <<com, net, total>> of parse_counts()
    latest,      \* per invocation: result of get_latest_row()
    has_header,  \* per invocation: append_to_csv's has_header
    row,         \* per invocation: append_to_csv's row, as written cells
    out,         \* per invocation: what the run printed / raised
    file0,       \* per invocation: data.csv when the run started
    touched      \* per invocation: has the run opened data.csv

vars == <<file, origin, runs, raced, pc, data, counts, latest,
          has_header, row, out, file0, touched>>

\* ------------------------------------------------------------------ text
Digits == <<"0", "1", "2", "3", "4", "5", "6", "7", "8", "9">>
UpperCase == <<"A", "B", "C", "D", "E", "F", "G", "H", "I", "J", "K", "L", "M",
               "N", "O", "P", "Q", "R", "S", "T", "U", "V", "W", "X", "Y", "Z">>
LowerCase == <<"a", "b", "c", "d", "e", "f", "g", "h", "i", "j", "k", "l", "m",
               "n", "o", "p", "q", "r", "s", "t", "u", "v", "w", "x", "y", "z">>

IsDigit(c) == \E i \in 1..10 : Digits[i] = c
DigitVal(c) == (CHOOSE i \in 1..10 : Digits[i] = c) - 1

\* str.lower() on one character, then on a string
LowerChar(c) ==
    IF \E i \in 1..26 : UpperCase[i] = c
    THEN LowerCase[CHOOSE i \in 1..26 : UpperCase[i] = c]
    ELSE c
StrLower(s) == [i \in 1..Len(s) |-> LowerChar(s[i])]

\* str(n) for a Python int
RECURSIVE NatToStr(_)
NatToStr(n) ==
    IF n < 10 THEN <<Digits[n + 1]>>
    ELSE NatToStr(n \div 10) \o <<Digits[(n % 10) + 1]>>
IntToStr(n) == IF n < 0 THEN <<"-">> \o NatToStr(0 - n) ELSE NatToStr(n)

\* str(x) for a Python float held as a number of halves (3 is 1.5)
FloatToStr(h) ==
    NatToStr(h \div 2) \o (IF h % 2 = 0 THEN <<".", "0">> ELSE <<".", "5">>)

\* int(s): surrounding blanks are stripped, one sign is allowed, then digits
\* with single underscores between them
RECURSIVE LStrip(_)
LStrip(s) == IF s # <<>> /\ Head(s) = " " THEN LStrip(Tail(s)) ELSE s
RECURSIVE RStrip(_)
RStrip(s) ==
    IF s # <<>> /\ s[Len(s)] = " " THEN RStrip(SubSeq(s, 1, Len(s) - 1)) ELSE s
Strip(s) == RStrip(LStrip(s))

ValidDigits(s) ==
    /\ s # <<>>
    /\ IsDigit(s[1])
    /\ IsDigit(s[Len(s)])
    /\ \A i \in 1..Len(s) : IsDigit(s[i]) \/ s[i] = "_"
    /\ \A i \in 1..(Len(s) - 1) : ~(s[i] = "_" /\ s[i + 1] = "_")

RECURSIVE DigitsVal(_, _)
DigitsVal(s, acc) ==
    IF s = <<>> THEN acc
    ELSE IF Head(s) = "_" THEN DigitsVal(Tail(s), acc)
    ELSE DigitsVal(Tail(s), 10 * acc + DigitVal(Head(s)))

ParseInt(s) ==
    LET t == Strip(s)
        signed == t # <<>> /\ t[1] \in {"+", "-"}
        body == IF signed THEN Tail(t) ELSE t
    IN IF ValidDigits(body)
       THEN [ok |-> TRUE,
             v |-> IF signed /\ t[1] = "-" THEN 0 - DigitsVal(body, 0)
                   ELSE DigitsVal(body, 0)]
       ELSE [ok |-> FALSE, v |-> 0]

\* date.isoformat() of day n of the modelled month; the runs happen on day 1,
\* the rows found on disk carry day 0
DateIso(n) == <<"2", "0", "2", "6", "-", "1", "1", "-", "0", Digits[n + 1]>>
today == DateIso(1)

\* ---------------------------------------------------------- JSON values
\* A decoded JSON value: t is its Python type, n the number (halves for a
\* float), s the text of a str.
IntV(n) == [t |-> "int", n |-> n, s |-> <<>>]
FloatV(h) == [t |-> "float", n |-> h, s |-> <<>>]
StrV(s) == [t |-> "str", n |-> 0, s |-> s]
NoneV == [t |-> "None", n |-> 0, s |-> <<>>]
Missing == [t |-> "missing", n |-> 0, s |-> <<>>]

\* Python's com + net
CanAdd(a, b) ==
    \/ a.t \in {"int", "float"} /\ b.t \in {"int", "float"}
    \/ a.t = "str" /\ b.t = "str"
Halves(a) == IF a.t = "int" THEN 2 * a.n ELSE a.n
PyAdd(a, b) ==
    IF a.t = "str" THEN StrV(a.s \o b.s)
    ELSE IF a.t = "int" /\ b.t = "int" THEN IntV(a.n + b.n)
    ELSE FloatV(Halves(a) + Halves(b))

\* Python's n == x for an int n read from the log
PyEqInt(n, x) ==
    \/ x.t = "int" /\ x.n = n
    \/ x.t = "float" /\ x.n = 2 * n

\* the cell csv.writer writes for a value
ToCell(x) ==
    IF x.t = "int" THEN IntToStr(x.n)
    ELSE IF x.t = "float" THEN FloatToStr(x.n)
    ELSE x.s

\* ------------------------------------------------------------- data.csv
HEADER == <<<<"d", "a", "t", "e">>, <<"c", "o", "m">>, <<"n", "e", "t">>,
            <<"t", "o", "t", "a", "l">>>>

\* rows an earlier run or an editor may have left in data.csv: header rows
\* in two letter cases, data rows as the program writes them and as int()
\* still reads them, a blank line, a short row, a row with a non-integer
HeaderRows ==
    {HEADER, <<<<"D", "a", "t", "E">>, HEADER[2], HEADER[3], HEADER[4]>>}
GoodRows ==
    {<<DateIso(0), <<"7">>, <<"7">>, <<"1", "4">>>>,
     <<DateIso(0), <<"0", "5">>, <<" ", "7">>, <<"+", "1", "_", "2">>, <<"x">>>>}
BadRows ==
    {<<>>,
     <<DateIso(0), <<"5">>>>,
     <<DateIso(0), <<"5">>, <<"7", ".", "0">>, <<"1", "2">>>>}
InitRows == HeaderRows \cup GoodRows \cup BadRows

RECURSIVE SeqsUpTo(_, _)
SeqsUpTo(S, n) ==
    IF n = 0 THEN {<<>>}
    ELSE LET shorter == SeqsUpTo(S, n - 1)
         IN shorter \cup {Append(q, x) : q \in {r \in shorter : Len(r) = n - 1}, x \in S}

Absent == [exists |-> FALSE, rows |-> <<>>]
InitFiles ==
    {Absent} \cup {[exists |-> TRUE, rows |-> r] : r \in SeqsUpTo(InitRows, MaxInitRows)}
\* the files the interleaved invocations start from
RaceFiles ==
    {Absent, [exists |-> TRUE,
              rows |-> <<HEADER, <<DateIso(0), <<"7">>, <<"7">>, <<"1", "4">>>>>>]}
    \cup {[exists |-> TRUE, rows |-> r] : r \in SeqsUpTo(InitRows, 1)}

\* ------------------------------------------------------- fetch_zone_data
IntVals == {IntV(n) : n \in Counts}
NoData == [st |-> "none", com |-> Missing, net |-> Missing]
\* what urlopen + json.loads can produce: a transport error, a body that is
\* not JSON, or a document whose two count fields hold these values
Payloads ==
    {[st |-> "ok", com |-> a, net |-> b] : a \in IntVals, b \in IntVals}
    \cup {[st |-> "ok", com |-> StrV(<<"5">>), net |-> StrV(<<"7">>)],
          [st |-> "ok", com |-> FloatV(14), net |-> IntV(7)],
          [st |-> "ok", com |-> IntV(5), net |-> NoneV],
          [st |-> "ok", com |-> IntV(5), net |-> Missing]}
fetch_zone_data ==
    Payloads \cup {[st |-> "URLError", com |-> Missing, net |-> Missing],
                   [st |-> "JSONDecodeError", com |-> Missing, net |-> Missing]}

\* ---------------------------------------------------------- parse_counts
NoCounts == <<Missing, Missing, Missing>>
parse_counts(d) ==
    IF d.com.t = "missing" \/ d.net.t = "missing"
    THEN [raised |-> "KeyError", t |-> NoCounts]
    ELSE IF ~CanAdd(d.com, d.net)
    THEN [raised |-> "TypeError", t |-> NoCounts]
    ELSE [raised |-> "", t |-> <<d.com, d.net, PyAdd(d.com, d.net)>>]

\* -------------------------------------------------------- get_latest_row
NoTriple == <<0, 0, 0>>
None == [raised |-> "", some |-> FALSE, t |-> NoTriple]

\* lines 41-44, for rows whose first row (if any) has a first cell
\* (variant with the length test off by one: a header and one row count as
\* no data)
DataRowsOffByOne(rows) ==
    IF rows = <<>> \/ StrLower(rows[1][1]) = HEADER[1]
    THEN (IF Len(rows) > 2 THEN Tail(rows) ELSE <<>>)
    ELSE rows
DataRows(rows) ==
    IF rows = <<>> \/ StrLower(rows[1][1]) = HEADER[1]
    THEN (IF Len(rows) > 1 THEN Tail(rows) ELSE <<>>)
    ELSE rows

get_latest_row(f) ==
    IF ~f.exists THEN None
    ELSE LET rows == f.rows IN
      IF rows # <<>> /\ rows[1] = <<>>
      THEN [raised |-> "IndexError", some |-> FALSE, t |-> NoTriple]
      ELSE LET data_rows == DataRows(rows)
           IN IF data_rows = <<>> THEN None
              ELSE LET last == data_rows[Len(data_rows)] IN
                IF Len(last) < 4 THEN None
                ELSE LET a == ParseInt(last[2])
                         b == ParseInt(last[3])
                         c == ParseInt(last[4])
                     IN IF a.ok /\ b.ok /\ c.ok
                        THEN [raised |-> "", some |-> TRUE, t |-> <<a.v, b.v, c.v>>]
                        ELSE None

\* latest is not None and latest == (com, net, total)
SameAsLatest(l, c) ==
    /\ l.some
    /\ \A i \in 1..3 : PyEqInt(l.t[i], c[i])

\* --------------------------------------------------------- append_to_csv
\* line 65: first[0].lower() == "date"
\* (variant without .lower())
FirstIsHeaderExact(first) == first[1] = HEADER[1]
FirstIsHeader(first) == StrLower(first[1]) = HEADER[1]

\* lines 61-67: does data.csv begin with a header row
\* (variant whose FileNotFoundError branch sets has_header = True)
ReadHasHeaderAbsentTrue(f) ==
    IF ~f.exists THEN [raised |-> "", has |-> TRUE]
    ELSE IF f.rows = <<>> THEN [raised |-> "", has |-> FALSE]
    ELSE IF f.rows[1] = <<>> THEN [raised |-> "IndexError", has |-> FALSE]
    ELSE [raised |-> "", has |-> FirstIsHeader(f.rows[1])]
ReadHasHeader(f) ==
    IF ~f.exists \/ f.rows = <<>> THEN [raised |-> "", has |-> FALSE]
    ELSE IF f.rows[1] = <<>> THEN [raised |-> "IndexError", has |-> FALSE]
    ELSE [raised |-> "", has |-> FirstIsHeader(f.rows[1])]

\* lines 69-73: what one open(..., "a") leaves in the file; the two
\* writerow calls reach the file together when the with block closes it
\* (variant that opens with "w")
WrittenTruncating(f, hh, r) ==
    [exists |-> TRUE, rows |-> IF hh THEN <<r>> ELSE <<HEADER, r>>]
Written(f, hh, r) ==
    [exists |-> TRUE, rows |-> f.rows \o (IF hh THEN <<r>> ELSE <<HEADER, r>>)]
\* who wrote the rows added, and whether from integer counts
WrittenBy(hh, p, ints) ==
    IF hh THEN <<[by |-> p, kind |-> "data", ints |-> ints]>>
    ELSE <<[by |-> p, kind |-> "header", ints |-> ints],
           [by |-> p, kind |-> "data", ints |-> ints]>>

\* line 84: the format spec "," is refused for a str
CanFormat(x) == x.t \in {"int", "float"}

\* ------------------------------------------------------------------ main
Running(p) == pc[p] \in {"fetch", "parse", "read", "compare", "append", "write"}

InitWith(files) ==
    /\ file \in files
    /\ origin = [i \in 1..Len(file.rows) |->
                  [by |-> 0, kind |-> "init", ints |-> FALSE]]
    /\ runs = 0
    /\ raced = FALSE
    /\ pc = [p \in Procs |-> "idle"]
    /\ data = [p \in Procs |-> NoData]
    /\ counts = [p \in Procs |-> NoCounts]
    /\ latest = [p \in Procs |-> None]
    /\ has_header = [p \in Procs |-> FALSE]
    /\ row = [p \in Procs |-> <<>>]
    /\ out = [p \in Procs |-> ""]
    /\ file0 = [p \in Procs |-> file]
    /\ touched = [p \in Procs |-> FALSE]

Init == InitWith(InitFiles)
InitRace == InitWith(RaceFiles)

\* a new invocation of main()
Start(p) ==
    /\ ~Running(p)
    /\ runs < MaxRuns
    /\ runs' = runs + 1
    /\ raced' = (raced \/ \E q \in Procs \ {p} : Running(q))
    /\ pc' = [pc EXCEPT ![p] = "fetch"]
    /\ data' = [data EXCEPT ![p] = NoData]
    /\ counts' = [counts EXCEPT ![p] = NoCounts]
    /\ latest' = [latest EXCEPT ![p] = None]
    /\ has_header' = [has_header EXCEPT ![p] = FALSE]
    /\ row' = [row EXCEPT ![p] = <<>>]
    /\ out' = [out EXCEPT ![p] = ""]
    /\ file0' = [file0 EXCEPT ![p] = file]
    /\ touched' = [touched EXCEPT ![p] = FALSE]
    /\ UNCHANGED <<file, origin>>

\* line 77: data = fetch_zone_data()
MainFetch(p) ==
    /\ pc[p] = "fetch"
    /\ \E d \in fetch_zone_data :
         /\ data' = [data EXCEPT ![p] = d]
         /\ pc' = [pc EXCEPT ![p] = IF d.st = "ok" THEN "parse" ELSE "failed"]
         /\ out' = [out EXCEPT ![p] = IF d.st = "ok" THEN "" ELSE d.st]
    /\ UNCHANGED <<file, origin, runs, raced, counts, latest,
                   has_header, row, file0, touched>>

\* line 78: com, net, total = parse_counts(data)
\* (variant that swallows the exception and carries on)
MainParseCarriesOn(p) ==
    /\ pc[p] = "parse"
    /\ LET r == parse_counts(data[p]) IN
         /\ counts' = [counts EXCEPT ![p] = r.t]
         /\ pc' = [pc EXCEPT ![p] = "read"]
         /\ out' = [out EXCEPT ![p] = r.raised]
    /\ UNCHANGED <<file, origin, runs, raced, data, latest,
                   has_header, row, file0, touched>>
MainParse(p) ==
    /\ pc[p] = "parse"
    /\ LET r == parse_counts(data[p]) IN
         /\ counts' = [counts EXCEPT ![p] = r.t]
         /\ pc' = [pc EXCEPT ![p] = IF r.raised = "" THEN "read" ELSE "failed"]
         /\ out' = [out EXCEPT ![p] = r.raised]
    /\ UNCHANGED <<file, origin, runs, raced, data, latest,
                   has_header, row, file0, touched>>

\* line 79: latest = get_latest_row()
MainGetLatest(p) ==
    /\ pc[p] = "read"
    /\ LET r == get_latest_row(file) IN
         /\ latest' = [latest EXCEPT ![p] = r]
         /\ pc' = [pc EXCEPT ![p] = IF r.raised = "" THEN "compare" ELSE "failed"]
         /\ out' = [out EXCEPT ![p] = r.raised]
    /\ touched' = [touched EXCEPT ![p] = TRUE]
    /\ UNCHANGED <<file, origin, runs, raced, data, counts,
                   has_header, row, file0>>

\* lines 80-82: skip when the counts match the latest entry
MainCompare(p) ==
    /\ pc[p] = "compare"
    /\ IF SameAsLatest(latest[p], counts[p])
       THEN /\ out' = [out EXCEPT ![p] = "Skipped"]
            /\ pc' = [pc EXCEPT ![p] = "done"]
       ELSE /\ out' = out
            /\ pc' = [pc EXCEPT ![p] = "append"]
    /\ UNCHANGED <<file, origin, runs, raced, data, counts, latest,
                   has_header, row, file0, touched>>

\* lines 58-67 of append_to_csv: build the row, look for a header
AppendReadHeader(p) ==
    /\ pc[p] = "append"
    /\ row' = [row EXCEPT ![p] = <<today, ToCell(counts[p][1]),
                                   ToCell(counts[p][2]), ToCell(counts[p][3])>>]
    /\ LET r == ReadHasHeader(file) IN
         /\ has_header' = [has_header EXCEPT ![p] = r.has]
         /\ pc' = [pc EXCEPT ![p] = IF r.raised = "" THEN "write" ELSE "failed"]
         /\ out' = [out EXCEPT ![p] = r.raised]
    /\ touched' = [touched EXCEPT ![p] = TRUE]
    /\ UNCHANGED <<file, origin, runs, raced, data, counts, latest,
                   file0>>

\* lines 69-73 of append_to_csv and line 84: append, then report
AppendWrite(p) ==
    /\ pc[p] = "write"
    /\ file' = Written(file, has_header[p], row[p])
    /\ LET w == WrittenBy(has_header[p], p,
                          \A i \in 1..3 : counts[p][i].t = "int")
       IN origin' = SubSeq(origin, 1, Len(file'.rows) - Len(w)) \o w
    /\ IF \A i \in 1..3 : CanFormat(counts[p][i])
       THEN /\ out' = [out EXCEPT ![p] = "Appended"]
            /\ pc' = [pc EXCEPT ![p] = "done"]
       ELSE /\ out' = [out EXCEPT ![p] = "ValueError"]
            /\ pc' = [pc EXCEPT ![p] = "failed"]
    /\ UNCHANGED <<runs, raced, data, counts, latest, has_header,
                   row, file0, touched>>

main(p) ==
    \/ Start(p)
    \/ MainFetch(p)
    \/ MainParse(p)
    \/ MainGetLatest(p)
    \/ MainCompare(p)
    \/ AppendReadHeader(p)
    \/ AppendWrite(p)

\* runs one at a time, as the design assumes
Next == \E p \in SeqProcs : main(p)
Spec == Init /\ [][Next]_vars

\* invocations started by a scheduler with no lock on data.csv
NextRace == \E p \in Procs : main(p)
SpecRace == InitRace /\ [][NextRace]_vars

\* ================================================================ claims
Ended(p) == pc[p] \in {"done", "failed"}
FetchedInts(p) ==
    /\ data[p].st = "ok"
    /\ data[p].com.t = "int"
    /\ data[p].net.t = "int"
\* the row a run writes for integer counts a, b
IntRow(a, b) == <<today, IntToStr(a), IntToStr(b), IntToStr(a + b)>>
IsPrefix(s, t) == Len(s) <= Len(t) /\ SubSeq(t, 1, Len(s)) = s
Last(s) == s[Len(s)]

\* a header row: its first cell is "date" in any letter case
IsHeaderRow(r) == r # <<>> /\ StrLower(r[1]) = HEADER[1]
HeaderAt(rows) == {i \in 1..Len(rows) : IsHeaderRow(rows[i])}
\* the rows of a log after its header row, if it starts with one
RowsAfterHeader(rows) ==
    IF rows # <<>> /\ IsHeaderRow(rows[1]) THEN Tail(rows) ELSE rows
\* cells 2..4 of a row as integers
Triple(r) ==
    IF Len(r) >= 4 /\ ParseInt(r[2]).ok /\ ParseInt(r[3]).ok /\ ParseInt(r[4]).ok
    THEN [ok |-> TRUE, t |-> <<ParseInt(r[2]).v, ParseInt(r[3]).v, ParseInt(r[4]).v>>]
    ELSE [ok |-> FALSE, t |-> NoTriple]
LastDataRowIs(f, a, b) ==
    /\ f.exists
    /\ RowsAfterHeader(f.rows) # <<>>
    /\ Triple(Last(RowsAfterHeader(f.rows))) = [ok |-> TRUE, t |-> <<a, b, a + b>>]
MalformedTail(f) ==
    /\ f.exists
    /\ f.rows # <<>>
    /\ ~Triple(Last(f.rows)).ok

\* C1: a run that fetched integers (A, B) against a log whose last data row
\* parses to (A, B, A+B) ends Skipped and leaves the log as it found it.
C1_SkipOnUnchanged ==
    \A p \in Procs :
        (/\ Ended(p)
         /\ FetchedInts(p)
         /\ LastDataRowIs(file0[p], data[p].com.n, data[p].net.n))
        => out[p] = "Skipped" /\ file = file0[p]

\* C1, for the logs whose first row has at least one cell
C1_SkipOnUnchangedFirstRowHasCells ==
    \A p \in Procs :
        (/\ Ended(p)
         /\ FetchedInts(p)
         /\ LastDataRowIs(file0[p], data[p].com.n, data[p].net.n)
         /\ file0[p].rows[1] # <<>>)
        => out[p] = "Skipped" /\ file = file0[p]

\* C2: a run that fetched integers (A, B) against an absent or empty log
\* ends Appended, and the log is then the header row and (today, A, B, A+B).
C2_FreshLogAppend ==
    \A p \in Procs :
        (Ended(p) /\ FetchedInts(p) /\ file0[p].rows = <<>>)
        => /\ out[p] = "Appended"
           /\ file = [exists |-> TRUE,
                      rows |-> <<HEADER, IntRow(data[p].com.n, data[p].net.n)>>]

C2_Witness ==
    /\ Ended(1)
    /\ ~file0[1].exists
    /\ data[1].com = IntV(5)
    /\ data[1].net = IntV(7)
    /\ file.rows = <<HEADER, <<today, <<"5">>, <<"7">>, <<"1", "2">>>>>>

\* C3: a run that fetched integers against a log whose last row is short or
\* holds a non-integer in cell 2, 3 or 4 finds no prior entry, raises
\* nothing and ends Appended.
C3_MalformedTailAppends ==
    \A p \in Procs :
        (Ended(p) /\ FetchedInts(p) /\ MalformedTail(file0[p]))
        => out[p] = "Appended" /\ latest[p] = None

\* C3, for the logs whose first row has at least one cell
C3_MalformedTailAppendsFirstRowHasCells ==
    \A p \in Procs :
        (/\ Ended(p)
         /\ FetchedInts(p)
         /\ MalformedTail(file0[p])
         /\ file0[p].rows[1] # <<>>)
        => out[p] = "Appended" /\ latest[p] = None

\* C4: when the log found on disk has no header row below its first row,
\* no run leaves a header row anywhere but in row 1.
C4_HeaderOnlyFirst ==
    (\A i \in 1..Len(origin) :
        origin[i].kind = "init" /\ IsHeaderRow(file.rows[i]) => i = 1)
    => HeaderAt(file.rows) \subseteq {1}

\* C5: a run that ends Appended on a log that starts with a header row, in
\* any letter case, adds one row, which is not a header row; a log found
\* with exactly one header row keeps exactly one.
C5_NoDuplicateHeader ==
    /\ \A p \in Procs :
         (/\ Ended(p)
          /\ out[p] = "Appended"
          /\ file0[p].rows # <<>>
          /\ IsHeaderRow(file0[p].rows[1]))
         => /\ file.rows = Append(file0[p].rows, row[p])
            /\ ~IsHeaderRow(row[p])
    /\ (/\ file.rows # <<>>
        /\ IsHeaderRow(file.rows[1])
        /\ \A i \in 2..Len(origin) :
             origin[i].kind = "init" => ~IsHeaderRow(file.rows[i]))
       => HeaderAt(file.rows) = {1}

C5_Witness ==
    /\ Ended(1)
    /\ out[1] = "Appended"
    /\ file0[1].rows # <<>>
    /\ file0[1].rows[1][1] = <<"D", "a", "t", "E">>
    /\ Len(file.rows) = 3

\* C6: a payload that holds a non-integer in a count field fails in
\* parse_counts: no counts are extracted, no row is built or written.
C6_NonIntegerRejected ==
    \A p \in Procs :
        (data[p].st = "ok" /\ ~FetchedInts(p))
        => /\ pc[p] \in {"parse", "failed"}
           /\ counts[p] = NoCounts
           /\ row[p] = <<>>
           /\ file = file0[p]

\* C7: a run whose fetch or field extraction failed ends failed without
\* having opened the log, which is as the run found it; a run opens the
\* log only after fetch and parse succeeded.
FetchFailures == {"URLError", "JSONDecodeError", "KeyError", "TypeError"}
FetchFailed(p) ==
    \/ data[p].st \in {"URLError", "JSONDecodeError"}
    \/ /\ data[p].st = "ok"
       /\ parse_counts(data[p]).raised # ""
       /\ pc[p] # "parse"
C7_NoWriteOnFetchFailure ==
    \A p \in Procs :
        /\ (FetchFailed(p) \/ out[p] \in FetchFailures)
           => /\ pc[p] = "failed"
              /\ out[p] \in FetchFailures
              /\ ~touched[p]
              /\ row[p] = <<>>
              /\ file = file0[p]
        /\ touched[p]
           => /\ data[p].st = "ok"
              /\ parse_counts(data[p]).raised = ""
              /\ counts[p] = parse_counts(data[p]).t

C7_Witness ==
    /\ pc[1] = "failed"
    /\ out[1] = "TypeError"
    /\ runs = 2
    /\ Len(file.rows) = 2
    /\ origin[2].by = 1

\* C8: the log a run found is a prefix of the log at every later point of
\* the run; a run that ends Appended has added one data row, the last row,
\* which for integer counts is (today, A, B, A+B).
C8_AppendOnly ==
    \A p \in Procs :
        /\ file0[p].exists => file.exists
        /\ IsPrefix(file0[p].rows, file.rows)
        /\ (Ended(p) /\ out[p] = "Appended")
           => /\ \/ file.rows = file0[p].rows \o <<Last(file.rows)>>
                 \/ file.rows = file0[p].rows \o <<HEADER, Last(file.rows)>>
              /\ ~IsHeaderRow(Last(file.rows))
              /\ FetchedInts(p)
                 => Last(file.rows) = IntRow(data[p].com.n, data[p].net.n)

C8_Witness ==
    /\ Ended(1)
    /\ out[1] = "Appended"
    /\ FetchedInts(1)
    /\ Len(file0[1].rows) = 2
    /\ Len(file.rows) = 3

\* C9: in every data row a run wrote, cell 4 is the sum of cells 2 and 3.
C9_TotalIsSum ==
    \A i \in 1..Len(origin) :
        (/\ origin[i].kind = "data"
         /\ ParseInt(file.rows[i][2]).ok
         /\ ParseInt(file.rows[i][3]).ok)
        => /\ ParseInt(file.rows[i][4]).ok
           /\ ParseInt(file.rows[i][4]).v
                = ParseInt(file.rows[i][2]).v + ParseInt(file.rows[i][3]).v

\* C10: the data rows of the log, in order, and whether two neighbours
\* among them carry the same triple
DataOnly(rows) == SelectSeq(rows, LAMBDA r : ~IsHeaderRow(r))
AdjacentDuplicate(rows) ==
    \E i \in 1..(Len(DataOnly(rows)) - 1) :
        /\ Triple(DataOnly(rows)[i]).ok
        /\ Triple(DataOnly(rows)[i]) = Triple(DataOnly(rows)[i + 1])
ProgramWritten ==
    \A i \in 1..Len(origin) : origin[i].kind # "init" /\ origin[i].ints

C10_TwoHeaders ==
    /\ raced
    /\ ~file0[1].exists
    /\ ~file0[2].exists
    /\ \A p \in Procs : out[p] = "Appended" /\ data[p].com = IntV(5)
                         /\ data[p].net = IntV(7)
    /\ file.rows = <<HEADER, IntRow(5, 7), HEADER, IntRow(5, 7)>>

====
